---- MODULE Spec2Model ----
(***************************************************************************)
(* Piper TTS inference front-end: the phoneme encoder, the backend cascade *)
(* and the output sink of piper_inference_fixed.py and piper_inference.py. *)
(*                                                                         *)
(* Python values: a dict is a function whose DOMAIN is its key set, a list *)
(* a sequence, a str a sequence of one-character strings.  A computation   *)
(* that may raise yields [exc, val]: exc = "" when it returned val.        *)
(* Non-ASCII phoneme symbols are written by code point ("U0251" is the     *)
(* symbol U+0251).                                                         *)
(***************************************************************************)
EXTENDS Integers, Sequences, FiniteSets, TLC

\* ------------------------------------------------------------- bounds
MaxLen == 2
MaxFbLen == 52

\* ------------------------------------------------------- Python helpers
None == "None"
EmptyDict == <<>>
Get(d, k, default) == IF k \in DOMAIN d THEN d[k] ELSE default
Min(a, b) == IF a <= b THEN a ELSE b
Ok(v) == [exc |-> "", val |-> v]
Raise(e) == [exc |-> e, val |-> <<>>]

RECURSIVE MaxOfList(_)
MaxOfList(s) ==
    IF Len(s) = 1 THEN s[1]
    ELSE LET m == MaxOfList(Tail(s)) IN IF s[1] >= m THEN s[1] ELSE m

MaxOfSet(S) == CHOOSE m \in S : \A x \in S : x <= m

\* The characters texts are drawn from: a vowel, a letter whose phoneme "ks"
\* is in no table, an upper-case letter, whitespace, a non-letter.
Chars == {"a", "x", "Z", " ", "9"}
Texts == UNION {[1..n -> Chars] : n \in 0..MaxLen}

UpperCase ==
    [c \in {"A", "B", "C", "P", "X", "Z"} |->
        CASE c = "A" -> "a" [] c = "B" -> "b" [] c = "C" -> "c"
          [] c = "P" -> "p" [] c = "X" -> "x" [] c = "Z" -> "z"]
LowerChar(c) == IF c \in DOMAIN UpperCase THEN UpperCase[c] ELSE c
Lower(text) == [i \in 1..Len(text) |-> LowerChar(text[i])]
IsSpace(c) == c \in {" ", "\t", "\n"}
Alphabet == <<"a", "b", "c", "d", "e", "f", "g", "h", "i", "j", "k", "l", "m",
              "n", "o", "p", "q", "r", "s", "t", "u", "v", "w", "x", "y", "z">>
IsAlpha(c) == \E i \in 1..Len(Alphabet) : Alphabet[i] = c
OrdMinusA(c) == (CHOOSE i \in 1..Len(Alphabet) : Alphabet[i] = c) - 1

RECURSIVE LStrip(_)
LStrip(t) == IF t # <<>> /\ IsSpace(t[1]) THEN LStrip(Tail(t)) ELSE t
RECURSIVE RStrip(_)
RStrip(t) ==
    IF t # <<>> /\ IsSpace(t[Len(t)]) THEN RStrip(SubSeq(t, 1, Len(t) - 1)) ELSE t
Strip(t) == RStrip(LStrip(t))
\* sub in s
Contains(sub, s) ==
    \E k \in 0..(Len(s) - Len(sub)) : SubSeq(s, k + 1, k + Len(sub)) = sub

\* ------------------------------------------------------ phoneme tables
_create_default_phoneme_map ==
    [s \in {"_", "$", " ", ".", ",", "!", "?", "a", "e", "i", "o", "u",
            "b", "c", "d", "f", "g", "h", "j", "k", "l", "m", "n", "p",
            "q", "r", "s", "t", "v", "w", "x", "y", "z"} |->
        CASE s = "_" -> <<1>> [] s = "$" -> <<2>> [] s = " " -> <<3>>
          [] s = "." -> <<4>> [] s = "," -> <<5>> [] s = "!" -> <<6>>
          [] s = "?" -> <<7>>
          [] s = "a" -> <<14>> [] s = "e" -> <<18>> [] s = "i" -> <<21>>
          [] s = "o" -> <<27>> [] s = "u" -> <<33>>
          [] s = "b" -> <<15>> [] s = "c" -> <<16>> [] s = "d" -> <<17>>
          [] s = "f" -> <<19>> [] s = "g" -> <<20>>
          [] s = "h" -> <<22>> [] s = "j" -> <<23>> [] s = "k" -> <<24>>
          [] s = "l" -> <<25>> [] s = "m" -> <<26>>
          [] s = "n" -> <<28>> [] s = "p" -> <<29>> [] s = "q" -> <<30>>
          [] s = "r" -> <<31>> [] s = "s" -> <<32>>
          [] s = "t" -> <<34>> [] s = "v" -> <<35>> [] s = "w" -> <<36>>
          [] s = "x" -> <<37>> [] s = "y" -> <<38>> [] s = "z" -> <<39>>]

char_to_phoneme ==
    [c \in {"a", "e", "i", "o", "u", "b", "c", "d", "f", "g", "h", "j", "k",
            "l", "m", "n", "p", "q", "r", "s", "t", "v", "w", "x", "y", "z",
            " ", ".", ",", "!", "?"} |->
        CASE c = "c" -> "k" [] c = "q" -> "k" [] c = "x" -> "ks"
          [] c = "y" -> "i" [] OTHER -> c]

similar_map ==
    [p \in {"U0251", "U0252", "U028C", "U0259", "U025B", "U025C", "U026A",
            "U0268", "U0254", "U0275", "U028A", "U0289", "U0279", "U027E",
            "U0294", "U03B8", "U00F0", "U0292", "U0283", "U00E7"} |->
        CASE p \in {"U0251", "U0252", "U028C", "U0259"} -> "a"
          [] p \in {"U025B", "U025C"} -> "e"
          [] p \in {"U026A", "U0268"} -> "i"
          [] p \in {"U0254", "U0275"} -> "o"
          [] p \in {"U028A", "U0289"} -> "u"
          [] p \in {"U0279", "U027E"} -> "r"
          [] p \in {"U0294", "U03B8"} -> "t"
          [] p = "U00F0" -> "d"
          [] p = "U0292" -> "z"
          [] p = "U0283" -> "s"
          [] p = "U00E7" -> "h"]

\* phoneme_id_map.get(sym, [dflt])[0] if sym in phoneme_id_map else dflt
\* (an entry with an empty id list makes the [0] raise IndexError).
IdOf(phoneme_id_map, sym, dflt) ==
    IF sym \in DOMAIN phoneme_id_map
    THEN IF phoneme_id_map[sym] = <<>> THEN Raise("IndexError")
         ELSE Ok(phoneme_id_map[sym][1])
    ELSE Ok(dflt)

\* max(max(ids) for ids in phoneme_id_map.values()) if phoneme_id_map else 200
MaxId(phoneme_id_map) ==
    IF DOMAIN phoneme_id_map = {} THEN Ok(200)
    ELSE IF \E s \in DOMAIN phoneme_id_map : phoneme_id_map[s] = <<>>
         THEN Raise("ValueError")
         ELSE Ok(MaxOfSet({MaxOfList(phoneme_id_map[s]) : s \in DOMAIN phoneme_id_map}))

Clamp(phonemes, max_id) == [i \in 1..Len(phonemes) |-> Min(phonemes[i], max_id)]

\* Appends the ids of a sequence of [exc, val] lookups; the first lookup that
\* raised decides the result.
RECURSIVE Collect(_)
Collect(lookups) ==
    IF lookups = <<>> THEN Ok(<<>>)
    ELSE IF lookups[1].exc # "" THEN Raise(lookups[1].exc)
    ELSE LET rest == Collect(Tail(lookups))
         IN IF rest.exc # "" THEN rest ELSE Ok(<<lookups[1].val>> \o rest.val)

\* -------------------------------------- piper_inference_fixed: encoder
\* One character of the per-character loop.
FixedCharId(phoneme_id_map, char) ==
    IF char \in DOMAIN char_to_phoneme
    THEN IF char_to_phoneme[char] \in DOMAIN phoneme_id_map
         THEN IdOf(phoneme_id_map, char_to_phoneme[char], 0)
         ELSE IdOf(phoneme_id_map, " ", 3)
    ELSE IdOf(phoneme_id_map, " ", 3)

text_to_phonemes_fixed_dropping(config, text0) ==
    LET m0 == Get(config, "phoneme_id_map", EmptyDict)
        phoneme_id_map == IF DOMAIN m0 = {} THEN _create_default_phoneme_map ELSE m0
        text == SelectSeq(Strip(Lower(text0)), LAMBDA c : c \in DOMAIN char_to_phoneme)
        ids == Collect(<<IdOf(phoneme_id_map, "_", 1)>>
                       \o [i \in 1..Len(text) |-> FixedCharId(phoneme_id_map, text[i])]
                       \o <<IdOf(phoneme_id_map, "$", 2)>>)
        max_id == MaxId(phoneme_id_map)
    IN  IF ids.exc # "" THEN ids
        ELSE IF max_id.exc # "" THEN Raise(max_id.exc)
        ELSE Ok(Clamp(ids.val, max_id.val))

text_to_phonemes_fixed(config, text0) ==
    LET m0 == Get(config, "phoneme_id_map", EmptyDict)
        phoneme_id_map == IF DOMAIN m0 = {} THEN _create_default_phoneme_map ELSE m0
        text == Strip(Lower(text0))
        ids == Collect(<<IdOf(phoneme_id_map, "_", 1)>>
                       \o [i \in 1..Len(text) |-> FixedCharId(phoneme_id_map, text[i])]
                       \o <<IdOf(phoneme_id_map, "$", 2)>>)
        max_id == MaxId(phoneme_id_map)
    IN  IF ids.exc # "" THEN ids
        ELSE IF max_id.exc # "" THEN Raise(max_id.exc)
        ELSE Ok(Clamp(ids.val, max_id.val))

\* ---------------------------------------------- piper_inference: encoder
vowels == <<14, 18, 21, 27, 33>>
consonants == <<15, 17, 19, 20, 23, 24, 25, 26, 28, 29, 30, 31, 32, 34, 35, 36, 37, 38>>

RECURSIVE FallbackPattern(_, _)
FallbackPattern(i, length) ==
    IF i >= length THEN <<>>
    ELSE <<IF i % 2 = 0 THEN vowels[(i % Len(vowels)) + 1]
           ELSE consonants[(i % Len(consonants)) + 1]>>
         \o (IF i % 4 = 3 THEN <<3>> ELSE <<>>)
         \o FallbackPattern(i + 1, length)

_generate_fallback_phonemes_uncapped(text) ==
    <<1>> \o FallbackPattern(0, Len(text)) \o <<2>>

_generate_fallback_phonemes(text) ==
    <<1>> \o FallbackPattern(0, Min(Len(text), 50)) \o <<2>>

_find_similar_phoneme_placeholder_only(phoneme, phoneme_id_map) ==
    IdOf(phoneme_id_map, "a", 14)

_find_similar_phoneme(phoneme, phoneme_id_map) ==
    IF /\ phoneme \in DOMAIN similar_map
       /\ similar_map[phoneme] \in DOMAIN phoneme_id_map
    THEN IdOf(phoneme_id_map, similar_map[phoneme], 0)
    ELSE IdOf(phoneme_id_map, "a", 14)

\* The tokens of one gruut word, then the separator appended after it.
\* word = [text |-> its characters, phonemes |-> gruut's phonemes, <<>> if none]
OrigWordIds(phoneme_id_map, word) ==
    (IF word.phonemes # <<>>
     THEN [i \in 1..Len(word.phonemes) |->
             IF word.phonemes[i] \in DOMAIN phoneme_id_map
             THEN IdOf(phoneme_id_map, word.phonemes[i], 0)
             ELSE _find_similar_phoneme(word.phonemes[i], phoneme_id_map)]
     ELSE [i \in 1..Len(word.text) |->
             LET char == LowerChar(word.text[i])
             IN  IF char \in DOMAIN phoneme_id_map
                 THEN IdOf(phoneme_id_map, char, 0)
                 ELSE IF IsSpace(char) THEN IdOf(phoneme_id_map, " ", 3)
                 ELSE IdOf(phoneme_id_map, "a", 14)])
    \o <<IdOf(phoneme_id_map, " ", 3)>>

RECURSIVE OrigWordsIds(_, _)
OrigWordsIds(phoneme_id_map, words) ==
    IF words = <<>> THEN <<>>
    ELSE OrigWordIds(phoneme_id_map, words[1]) \o OrigWordsIds(phoneme_id_map, Tail(words))

\* gruut = [raises |-> whether gruut.sentences fails, words |-> the words of
\* its sentences in order]; the engine is external, its result an input.
text_to_phonemes_orig(config, text, gruut) ==
    LET phoneme_id_map == Get(config, "phoneme_id_map", EmptyDict)
        ids == Collect(<<IdOf(phoneme_id_map, "_", 1)>>
                       \o OrigWordsIds(phoneme_id_map, gruut.words)
                       \o <<IdOf(phoneme_id_map, "$", 2)>>)
        max_allowed_id == MaxId(phoneme_id_map)
    IN  IF DOMAIN phoneme_id_map = {} THEN Ok(_generate_fallback_phonemes(text))
        ELSE IF gruut.raises \/ ids.exc # "" \/ max_allowed_id.exc # ""
        THEN Ok(_generate_fallback_phonemes(text))
        ELSE Ok(Clamp(ids.val, max_allowed_id.val))

\* -------------------------------------------------- encoder: the inputs
\* Phoneme tables a voice configuration may carry.
PiperTable ==
    [s \in {"_", "^", "$", " ", "a", "z"} |->
        CASE s = "_" -> <<0>> [] s = "^" -> <<1>> [] s = "$" -> <<2>>
          [] s = " " -> <<3>> [] s = "a" -> <<14>> [] s = "z" -> <<38>>]
SmallTable ==
    [s \in {"_", "$", "a"} |->
        CASE s = "_" -> <<5>> [] s = "$" -> <<6>> [] s = "a" -> <<7, 9>>]
UnframedTable == [s \in {"a"} |-> <<0>>]
EmptyIdsTable ==
    [s \in {"_", "$", "a"} |->
        CASE s = "_" -> <<1>> [] s = "$" -> <<2>> [] s = "a" -> <<>>]
Tables == {EmptyDict, _create_default_phoneme_map, PiperTable, SmallTable,
           UnframedTable, EmptyIdsTable}

\* Configurations as far as the encoder reads them: the table key absent, or
\* present with one of the tables.
EncConfigs == {EmptyDict} \cup {"phoneme_id_map" :> t : t \in Tables}

\* The words gruut makes of a text: its whitespace-separated pieces.
RECURSIVE SplitWords(_, _)
SplitWords(text, cur) ==
    IF text = <<>> THEN (IF cur = <<>> THEN <<>> ELSE <<cur>>)
    ELSE IF IsSpace(text[1])
         THEN (IF cur = <<>> THEN <<>> ELSE <<cur>>) \o SplitWords(Tail(text), <<>>)
         ELSE SplitWords(Tail(text), Append(cur, text[1]))

\* What gruut may say of one word: no phonemes, a phoneme of the tables, one
\* of the similarity map, one of neither.
WordPhonemes == {<<>>, <<"a">>, <<"U0251">>, <<"U0283", "U014B">>}
NoGruut == [raises |-> FALSE, words |-> <<>>]
GruutResults(text) ==
    LET pieces == SplitWords(text, <<>>)
    IN  {[raises |-> TRUE, words |-> <<>>]}
        \cup {[raises |-> FALSE,
               words |-> [i \in 1..Len(pieces) |-> [text |-> pieces[i], phonemes |-> ph[i]]]]
              : ph \in [1..Len(pieces) -> WordPhonemes]}

\* --------------------------------------------------- synthesis: inputs
\* A path is the sequence of its components, <<>> for no path (None).
NoPath == <<>>
OutputPaths == {<<"out.wav">>, <<"out", "sub", "a.wav">>}
dirname(path) == SubSeq(path, 1, Len(path) - 1)
SampleRates == {5, 22050}
SynthTexts == {<<>>, <<" ", "Z">>}
Outcomes == {"ok", "raise"}

PiperConfig ==
    ("phoneme_id_map" :> PiperTable) @@ ("audio" :> [sample_rate |-> 16000])
    @@ ("language" :> "en") @@ ("inference" :> [noise_scale |-> 333])
EmptyIdsConfig == "phoneme_id_map" :> EmptyIdsTable
SynthConfigs == {EmptyDict, PiperConfig, EmptyIdsConfig}
ConfigFiles ==
    {[state |-> "missing", content |-> EmptyDict],
     [state |-> "malformed", content |-> EmptyDict]}
    \cup {[state |-> "ok", content |-> c] : c \in SynthConfigs}

\* What is at model_path: nothing, an ONNX graph, a PyTorch checkpoint.  A
\* loader fails on a missing file and on a file of the other kind, and may
\* fail on a file of its own kind (a damaged or incompatible one).
Artifacts == {"missing", "onnx", "checkpoint"}
LoadOutcomes(kind, at_path) == IF at_path = kind THEN BOOLEAN ELSE {FALSE}

\* A waveform: who produced it, its number of samples, and the sinusoids
\* summed into it (frequency in Hz, amplitude 0.3 / decay).
NoAudio == [src |-> "none", n |-> 0, tones |-> <<>>]
OkA(a) == [exc |-> "", val |-> a]
RaiseA(e) == [exc |-> e, val |-> NoAudio]
BackendAudio(src, phonemes) == [src |-> src, n |-> Len(phonemes), tones |-> <<>>]

\* ----------------------------- piper_inference_fixed: synthetic generator
RECURSIVE Tones(_, _)
Tones(lowered, i) ==
    IF i > Len(lowered) THEN <<>>
    ELSE (IF IsAlpha(lowered[i])
          THEN <<[freq |-> 220 + OrdMinusA(lowered[i]) * 10, decay |-> i]>>
          ELSE <<>>)
         \o Tones(lowered, i + 1)

\* int(x) of the source truncates; every operand here is non-negative.
generate_fallback_audio(text, sample_rate) ==
    LET n == (sample_rate * Len(text)) \div 10
        attack_samples == sample_rate \div 100
        release_samples == sample_rate \div 10
    IN  IF n > release_samples /\ release_samples = 0
        THEN RaiseA("ValueError")   \* envelope[-0:] = an empty linspace
        ELSE IF n = 0
        THEN RaiseA("ValueError")   \* np.max of an empty array
        ELSE OkA([src |-> "synthetic", n |-> n, tones |-> Tones(Lower(text), 1)])

\* np.max(np.abs(audio)) of the generator's result, in thousandths.  Every
\* sinusoid is 0 at t = 0, the only sample of a one-sample waveform; from
\* two samples on a waveform with a sinusoid is not all zero and is scaled
\* to 0.8.
FallbackPeak(audio) == IF audio.tones # <<>> /\ audio.n >= 2 THEN 800 ELSE 0

\* The external-process tier: the reference tool is run on the text; a
\* non-zero exit status raises ExternalToolFailure.
external_synthesize(text, exit_status) ==
    IF exit_status = 0
    THEN OkA([src |-> "external", n |-> Len(text), tones |-> <<>>])
    ELSE RaiseA("ExternalToolFailure")

\* The tier inside synthesize: an exception of the try block ends in the
\* handler, which returns the synthetic generator's audio.
synthesize_external(text, sample_rate, exit_status) ==
    LET e == external_synthesize(text, exit_status)
    IN  IF e.exc = "" THEN e ELSE generate_fallback_audio(text, sample_rate)

\* ------------------------------------------- the input map of the ONNX run
\* Input names, as strings of characters.
N_input == <<"i", "n", "p", "u", "t">>
N_input_lengths == <<"i", "n", "p", "u", "t", "_", "l", "e", "n", "g", "t", "h", "s">>
N_scales == <<"s", "c", "a", "l", "e", "s">>
N_Phoneme_ids == <<"P", "h", "o", "n", "e", "m", "e", "_", "i", "d", "s">>
N_sid == <<"s", "i", "d">>
N_phoneme_lengths ==
    <<"p", "h", "o", "n", "e", "m", "e", "_", "l", "e", "n", "g", "t", "h", "s">>
N_length_scale == <<"l", "e", "n", "g", "t", "h", "_", "s", "c", "a", "l", "e">>
N_phoneme == <<"p", "h", "o", "n", "e", "m", "e">>
N_length == <<"l", "e", "n", "g", "t", "h">>
N_scale == <<"s", "c", "a", "l", "e">>

\* piper_inference_fixed: what the loop of synthesize_with_onnx gives one
\* input name ("none": no entry is made).  input_shape is the shape of the
\* session's first input, a dynamic dimension being -1.
FixedInputRoleScaleFirst(input_name, input_shape, phonemes_len) ==
    IF input_name = N_input \/ Contains(N_phoneme, Lower(input_name))
    THEN "phoneme_input"
    ELSE IF input_name = N_scales \/ Contains(N_scale, Lower(input_name))
    THEN "scales"
    ELSE IF input_name = N_input_lengths \/ Contains(N_length, Lower(input_name))
    THEN "input_lengths"
    ELSE IF Len(input_shape) = 2 /\ input_shape[2] = phonemes_len
    THEN "phoneme_input"
    ELSE IF Len(input_shape) = 1 /\ input_shape[1] = 1 THEN "input_lengths"
    ELSE IF Len(input_shape) = 1 /\ input_shape[1] = 3 THEN "scales"
    ELSE "none"

FixedInputRole(input_name, input_shape, phonemes_len) ==
    IF input_name = N_input \/ Contains(N_phoneme, Lower(input_name))
    THEN "phoneme_input"
    ELSE IF input_name = N_input_lengths \/ Contains(N_length, Lower(input_name))
    THEN "input_lengths"
    ELSE IF input_name = N_scales \/ Contains(N_scale, Lower(input_name))
    THEN "scales"
    ELSE IF Len(input_shape) = 2 /\ input_shape[2] = phonemes_len
    THEN "phoneme_input"
    ELSE IF Len(input_shape) = 1 /\ input_shape[1] = 1 THEN "input_lengths"
    ELSE IF Len(input_shape) = 1 /\ input_shape[1] = 3 THEN "scales"
    ELSE "none"

onnx_inputs_fixed(input_names, input_shape, phonemes_len) ==
    [n \in {m \in input_names : FixedInputRole(m, input_shape, phonemes_len) # "none"}
        |-> FixedInputRole(n, input_shape, phonemes_len)]

\* piper_inference: the loop of synthesize, with its placeholder of zeros.
onnx_inputs_orig(input_names, input_shape, phonemes_len) ==
    [n \in input_names |->
        IF n = N_input THEN "phoneme_input"
        ELSE IF n = N_input_lengths THEN "input_lengths"
        ELSE IF n = N_scales THEN "scales"
        ELSE "zeros"]

\* ------------------------------------- piper_inference_fixed: synthesize
\* noise_scale, length_scale, noise_w of synthesize_with_onnx, in thousandths.
inference_scales_zero_default(config) ==
    LET inference == Get(config, "inference", EmptyDict)
    IN  <<Get(inference, "noise_scale", 0), Get(inference, "length_scale", 0),
          Get(inference, "noise_w", 0)>>
inference_scales(config) ==
    LET inference == Get(config, "inference", EmptyDict)
    IN  <<Get(inference, "noise_scale", 667), Get(inference, "length_scale", 1000),
          Get(inference, "noise_w", 800)>>

\* The try block up to the audio: [exc, audio, tried, backend_exc].
FixedTiersRetryAlways(session, model, config, text, sample_rate, onnx_run, torch_run) ==
    LET phonemes == text_to_phonemes_fixed(config, text)
        synth == generate_fallback_audio(text, sample_rate)
    IN  IF phonemes.exc # ""
        THEN [exc |-> phonemes.exc, audio |-> NoAudio, tried |-> <<>>,
              backend_exc |-> FALSE,
              scales |-> <<>>]
        ELSE IF session # None
        THEN IF onnx_run = "ok"
             THEN [exc |-> "", audio |-> BackendAudio("onnx", phonemes.val),
                   tried |-> <<"onnx">>, backend_exc |-> FALSE,
              scales |-> inference_scales(config)]
             ELSE IF model # None
             THEN IF torch_run = "ok"
                  THEN [exc |-> "", audio |-> BackendAudio("pytorch", phonemes.val),
                        tried |-> <<"onnx", "pytorch">>, backend_exc |-> TRUE,
              scales |-> inference_scales(config)]
                  ELSE [exc |-> "RuntimeError", audio |-> NoAudio,
                        tried |-> <<"onnx", "pytorch">>, backend_exc |-> TRUE,
              scales |-> inference_scales(config)]
             ELSE [exc |-> "RuntimeError", audio |-> NoAudio,
                   tried |-> <<"onnx", "pytorch">>, backend_exc |-> TRUE,
              scales |-> inference_scales(config)]
        ELSE IF model # None
        THEN IF torch_run = "ok"
             THEN [exc |-> "", audio |-> BackendAudio("pytorch", phonemes.val),
                   tried |-> <<"pytorch">>, backend_exc |-> FALSE,
              scales |-> <<>>]
             ELSE [exc |-> "RuntimeError", audio |-> NoAudio,
                   tried |-> <<"pytorch">>, backend_exc |-> TRUE,
              scales |-> <<>>]
        ELSE [exc |-> synth.exc, audio |-> synth.val, tried |-> <<"synthetic">>,
              backend_exc |-> FALSE,
              scales |-> <<>>]

FixedTiers(session, model, config, text, sample_rate, onnx_run, torch_run) ==
    LET phonemes == text_to_phonemes_fixed(config, text)
        synth == generate_fallback_audio(text, sample_rate)
    IN  IF phonemes.exc # ""
        THEN [exc |-> phonemes.exc, audio |-> NoAudio, tried |-> <<>>,
              backend_exc |-> FALSE,
              scales |-> <<>>]
        ELSE IF session # None
        THEN IF onnx_run = "ok"
             THEN [exc |-> "", audio |-> BackendAudio("onnx", phonemes.val),
                   tried |-> <<"onnx">>, backend_exc |-> FALSE,
              scales |-> inference_scales(config)]
             ELSE IF model # None
             THEN IF torch_run = "ok"
                  THEN [exc |-> "", audio |-> BackendAudio("pytorch", phonemes.val),
                        tried |-> <<"onnx", "pytorch">>, backend_exc |-> TRUE,
              scales |-> inference_scales(config)]
                  ELSE [exc |-> "RuntimeError", audio |-> NoAudio,
                        tried |-> <<"onnx", "pytorch">>, backend_exc |-> TRUE,
              scales |-> inference_scales(config)]
             ELSE [exc |-> "RuntimeError", audio |-> NoAudio,
                   tried |-> <<"onnx">>, backend_exc |-> TRUE,
              scales |-> inference_scales(config)]
        ELSE IF model # None
        THEN IF torch_run = "ok"
             THEN [exc |-> "", audio |-> BackendAudio("pytorch", phonemes.val),
                   tried |-> <<"pytorch">>, backend_exc |-> FALSE,
              scales |-> <<>>]
             ELSE [exc |-> "RuntimeError", audio |-> NoAudio,
                   tried |-> <<"pytorch">>, backend_exc |-> TRUE,
              scales |-> <<>>]
        ELSE [exc |-> synth.exc, audio |-> synth.val, tried |-> <<"synthetic">>,
              backend_exc |-> FALSE,
              scales |-> <<>>]

\* os.makedirs(os.path.dirname(output_path), exist_ok=True)
makedirs(dir) ==
    IF dir = <<>> THEN [exc |-> "FileNotFoundError", made |-> {}]
    ELSE [exc |-> "", made |-> {SubSeq(dir, 1, k) : k \in 1..Len(dir)}]

synthesize_fixed_stripped_text(session, model, config, text, output_path, sample_rate, onnx_run, torch_run) ==
    LET t == FixedTiers(session, model, config, text, sample_rate, onnx_run, torch_run)
        md == IF t.exc = "" /\ output_path # NoPath
              THEN makedirs(dirname(output_path))
              ELSE [exc |-> "", made |-> {}]
        final == generate_fallback_audio(Strip(text), sample_rate)
    IN  IF t.exc = "" /\ md.exc = ""
        THEN [exc |-> "", audio |-> t.audio, tried |-> t.tried,
              backend_exc |-> t.backend_exc, made |-> md.made,
              wrote |-> output_path # NoPath, scales |-> t.scales,
              language |-> Get(config, "language", "pt")]
        ELSE [exc |-> final.exc, audio |-> final.val,
              tried |-> Append(t.tried, "synthetic"),
              backend_exc |-> t.backend_exc, made |-> {}, wrote |-> FALSE,
              scales |-> t.scales, language |-> Get(config, "language", "pt")]

\* The whole call: [exc, audio, tried, backend_exc, made, wrote].
synthesize_fixed(session, model, config, text, output_path, sample_rate, onnx_run, torch_run) ==
    LET t == FixedTiers(session, model, config, text, sample_rate, onnx_run, torch_run)
        md == IF t.exc = "" /\ output_path # NoPath
              THEN makedirs(dirname(output_path))
              ELSE [exc |-> "", made |-> {}]
        final == generate_fallback_audio(text, sample_rate)
    IN  IF t.exc = "" /\ md.exc = ""
        THEN [exc |-> "", audio |-> t.audio, tried |-> t.tried,
              backend_exc |-> t.backend_exc, made |-> md.made,
              wrote |-> output_path # NoPath, scales |-> t.scales,
              language |-> Get(config, "language", "pt")]
        ELSE [exc |-> final.exc, audio |-> final.val,
              tried |-> Append(t.tried, "synthetic"),
              backend_exc |-> t.backend_exc, made |-> {}, wrote |-> FALSE,
              scales |-> t.scales, language |-> Get(config, "language", "pt")]

\* ------------------------------------------- piper_inference: synthesize
generate_synthetic_audio(config, text) ==
    LET sample_rate == Get(Get(config, "audio", EmptyDict), "sample_rate", 22050)
    IN  [src |-> "synthetic", n |-> 2 * sample_rate,
         tones |-> <<[freq |-> 200 + (Len(text) % 300), decay |-> 1]>>]

\* The module never imports os, so each os.makedirs raises NameError: in the
\* try block, and again in the handler that saves the synthetic audio.
synthesize_orig(onnx_available, pytorch_available, config, text, gruut, output_path, backend_run) ==
    LET phonemes == text_to_phonemes_orig(config, text, gruut).val
        tier == IF onnx_available = "True" THEN "onnx"
                ELSE IF pytorch_available = "True" THEN "pytorch"
                ELSE "synthetic_mel"
        failed == tier # "synthetic_mel" /\ backend_run = "raise"
    IN  IF ~failed /\ output_path = NoPath
        THEN [exc |-> "", audio |-> BackendAudio(tier, phonemes), tried |-> <<tier>>,
              backend_exc |-> FALSE, made |-> {}, wrote |-> FALSE,
              scales |-> IF tier = "onnx" THEN inference_scales(config) ELSE <<>>,
              language |-> Get(config, "language", "pt")]
        ELSE IF output_path = NoPath
        THEN [exc |-> "", audio |-> generate_synthetic_audio(config, text),
              tried |-> <<tier, "synthetic">>, backend_exc |-> TRUE,
              made |-> {}, wrote |-> FALSE,
              scales |-> IF tier = "onnx" THEN inference_scales(config) ELSE <<>>,
              language |-> Get(config, "language", "pt")]
        ELSE [exc |-> "NameError", audio |-> NoAudio,
              tried |-> <<tier, "synthetic">>, backend_exc |-> failed,
              made |-> {}, wrote |-> FALSE,
              scales |-> IF tier = "onnx" THEN inference_scales(config) ELSE <<>>,
              language |-> Get(config, "language", "pt")]

\* ------------------------------------------ download_voices: one voice
\* A file of a voice is [rel, md5]: how its path in the catalogue ends and
\* its md5_digest (None when the catalogue gives none).  A file on disk, and
\* a body the server sends, is known by its MD5; "absent": no file.
FileKinds == {".onnx", ".onnx.json", "MODEL_CARD"}
GoodMd5 == "c0ffee"
OtherMd5 == "0badd"
Responses == {"http_error", "broken_stream", GoodMd5, OtherMd5}

\* The files the loop visits, each with its destination's suffix.
iter_voice_files(files) ==
    SelectSeq(files, LAMBDA f : f.rel \in {".onnx", ".onnx.json"})

file_matches_md5(content, expected_md5) ==
    IF expected_md5 = None \/ content = "absent" THEN FALSE
    ELSE content = expected_md5

\* raise_for_status, then the destination is opened for writing and the
\* body streamed into it: [exc, disk].
download_file(disk, dest, response) ==
    IF response = "http_error" THEN [exc |-> "HTTPError", disk |-> disk]
    ELSE IF response = "broken_stream"
    THEN [exc |-> "ConnectionError", disk |-> [disk EXCEPT ![dest] = OtherMd5]]
    ELSE [exc |-> "", disk |-> [disk EXCEPT ![dest] = response]]

\* if dest_file.exists(): dest_file.unlink(missing_ok=True)
unlink_kept(disk, dest) == disk
unlink(disk, dest) == [disk EXCEPT ![dest] = "absent"]

\* One turn of the loop of download_voice: [disk, failed, action].
download_one(disk, skip_existing, file, response) ==
    LET dest == file.rel
        dl == download_file(disk, dest, response)
    IN  IF disk[dest] # "absent" /\ skip_existing
        THEN [disk |-> disk, failed |-> FALSE, action |-> "skipped"]
        ELSE IF disk[dest] # "absent" /\ file_matches_md5(disk[dest], file.md5)
        THEN [disk |-> disk, failed |-> FALSE, action |-> "kept"]
        ELSE IF \/ dl.exc # ""
                \/ file.md5 # None /\ ~file_matches_md5(dl.disk[dest], file.md5)
        THEN [disk |-> unlink(dl.disk, dest), failed |-> TRUE, action |-> "failed"]
        ELSE [disk |-> dl.disk, failed |-> FALSE, action |-> "saved"]

\* ------------------------------------------------------------ variables
\* One call of an encoder: its inputs and its outcome.
VARIABLES e_variant, e_config, e_text, e_gruut, e_out
\* One call of _find_similar_phoneme (on the table of e_config).
VARIABLES s_phoneme, s_out
\* One call of _generate_fallback_phonemes.
VARIABLES f_text, f_out
\* One building of the ONNX input map: the module, the names the session
\* expects, the shape of its first input, the number of phonemes, the map.
VARIABLES o_variant, o_names, o_shape, o_len, o_out
\* One call of generate_fallback_audio and one call that reaches the
\* external-process tier, on the same text and rate; the tool's exit status.
VARIABLES g_text, g_rate, g_exit, g_out, x_out
\* Concurrent synthesize calls on one object of piper_inference_fixed: each
\* thread's call (its arguments, its position, its locals), and the object's
\* session, model and config as they were when the calls began.
VARIABLES calls, voice0
\* One run of download_voice: the voice's files in the catalogue's order,
\* args.skip_existing, the destination files, the loop's position, the
\* success flag, and what was done with each file so far.
VARIABLES d_files, d_skip, d_disk, d_i, d_success, d_pc, d_log
\* The process and the files it is given: which module is in use, the two
\* import flags of piper_inference_fixed, the configuration file, and what is
\* at model_path.
VARIABLES variant, ONNX_AVAILABLE, TORCH_AVAILABLE, cfgfile, artifact
\* The PiperTTSInference object: where its constructor stands, its attributes,
\* the probes the constructor has made so far, and those of them that loaded.
VARIABLES pc, session, model, config, onnx_available, pytorch_available, probes,
          loaded
\* The output directory of the run, the last synthesize call of the object,
\* and the first call that was made with no backend loaded and no output path
\* (on this or on an earlier object).
VARIABLES dirs, files, last, ref

simVars == <<s_phoneme, s_out>>
fbVars == <<f_text, f_out>>
onnxVars == <<o_variant, o_names, o_shape, o_len, o_out>>
genVars == <<g_text, g_rate, g_exit, g_out, x_out>>
concVars == <<calls, voice0>>
dlVars == <<d_files, d_skip, d_disk, d_i, d_success, d_pc, d_log>>
encVars == <<e_variant, e_config, e_text, e_gruut, e_out, simVars, fbVars, onnxVars, genVars, concVars, dlVars>>
envVars == <<variant, ONNX_AVAILABLE, TORCH_AVAILABLE, cfgfile, artifact>>
selfVars == <<session, model, config, onnx_available, pytorch_available>>
objVars == <<pc, selfVars, probes, loaded>>
fsVars == <<dirs, files>>
vars == <<encVars, envVars, objVars, fsVars, last, ref>>

NotCalled == [done |-> FALSE, exc |-> "", val |-> <<>>]
Called(r) == [done |-> TRUE, exc |-> r.exc, val |-> r.val]
NoAudioCall == [done |-> FALSE, exc |-> "", val |-> NoAudio]

\* ------------------------------------- encoder: one call of the encoder
NoFile == [exists |-> FALSE, audio |-> NoAudio, rate |-> 0]
NoCall ==
    [done |-> FALSE, text |-> <<>>, output_path |-> NoPath, sample_rate |-> 0,
     ready |-> "none", exc |-> "", audio |-> NoAudio, tried |-> <<>>,
     backend_exc |-> FALSE, wrote |-> FALSE, scales |-> <<>>, language |-> ""]
NoRef ==
    [set |-> FALSE, text |-> <<>>, sample_rate |-> 0, exc |-> "", audio |-> NoAudio]

\* No object under construction, an empty file system.
IdleObject ==
    /\ variant = "fixed" /\ ONNX_AVAILABLE = TRUE /\ TORCH_AVAILABLE = TRUE
    /\ cfgfile = [state |-> "missing", content |-> EmptyDict]
    /\ artifact = "missing"
    /\ pc = "idle" /\ session = None /\ model = None /\ config = EmptyDict
    /\ onnx_available = "unset" /\ pytorch_available = "unset" /\ probes = <<>>
    /\ loaded = {}
    /\ dirs = {} /\ files = [p \in OutputPaths |-> NoFile]
    /\ last = NoCall /\ ref = NoRef

IdleSimilar == s_phoneme = "" /\ s_out = NotCalled
IdleFallback == f_text = <<>> /\ f_out = NotCalled
IdleInputs ==
    /\ o_variant = "fixed" /\ o_names = {} /\ o_shape = <<>> /\ o_len = 0
    /\ o_out = NotCalled

IdleGenerator ==
    /\ g_text = <<>> /\ g_rate = 22050 /\ g_exit = 0
    /\ g_out = NoAudioCall /\ x_out = NoAudioCall

Threads == {1, 2}
NoThreadCall ==
    [pc |-> "idle", text |-> <<>>, output_path |-> NoPath, sample_rate |-> 22050,
     onnx_run |-> "ok", torch_run |-> "ok", phonemes |-> <<>>, audio |-> NoAudio,
     exc |-> "", tried |-> <<>>, backend_exc |-> FALSE, wrote |-> FALSE]
IdleCalls ==
    /\ calls = [t \in Threads |-> NoThreadCall]
    /\ voice0 = <<None, None, EmptyDict>>

Destinations == {".onnx", ".onnx.json"}
IdleDownload ==
    /\ d_files = <<>> /\ d_skip = FALSE
    /\ d_disk = [d \in Destinations |-> "absent"]
    /\ d_i = 1 /\ d_success = TRUE /\ d_pc = "idle" /\ d_log = <<>>

IdleEncoder ==
    /\ e_variant = "fixed" /\ e_config = EmptyDict /\ e_text = <<>>
    /\ e_gruut = NoGruut /\ e_out = NotCalled
    /\ IdleSimilar /\ IdleFallback /\ IdleInputs /\ IdleGenerator
    /\ IdleCalls /\ IdleDownload

InitEnc ==
    /\ e_variant \in {"fixed", "orig"}
    /\ e_config \in EncConfigs
    /\ e_text \in Texts
    /\ e_gruut \in IF e_variant = "orig" THEN GruutResults(e_text) ELSE {NoGruut}
    /\ e_out = NotCalled
    /\ IdleSimilar /\ IdleFallback /\ IdleInputs /\ IdleGenerator /\ IdleCalls /\ IdleDownload
    /\ IdleObject

EncodeFixed ==
    /\ e_variant = "fixed"
    /\ ~e_out.done
    /\ e_out' = Called(text_to_phonemes_fixed(e_config, e_text))
    /\ UNCHANGED <<e_variant, e_config, e_text, e_gruut, simVars, fbVars, onnxVars, genVars, concVars, dlVars>>
    /\ UNCHANGED <<envVars, objVars, fsVars, last, ref>>

EncodeOrig ==
    /\ e_variant = "orig"
    /\ ~e_out.done
    /\ e_out' = Called(text_to_phonemes_orig(e_config, e_text, e_gruut))
    /\ UNCHANGED <<e_variant, e_config, e_text, e_gruut, simVars, fbVars, onnxVars, genVars, concVars, dlVars>>
    /\ UNCHANGED <<envVars, objVars, fsVars, last, ref>>

NextEnc == EncodeFixed \/ EncodeOrig
SpecEnc == InitEnc /\ [][NextEnc]_vars

\* ------------------------------ encoder: one call of _find_similar_phoneme
\* The symbols gruut may give: those of the similarity map, one that is in
\* the tables, one that is in neither.
Phonemes == DOMAIN similar_map \cup {"a", "U014B"}

InitSim ==
    /\ e_variant = "orig" /\ e_config \in EncConfigs /\ e_text = <<>>
    /\ e_gruut = NoGruut /\ e_out = NotCalled
    /\ s_phoneme \in Phonemes /\ s_out = NotCalled
    /\ IdleFallback /\ IdleInputs /\ IdleGenerator /\ IdleCalls /\ IdleDownload
    /\ IdleObject

FindSimilar ==
    /\ ~s_out.done
    /\ s_out' = Called(_find_similar_phoneme(s_phoneme,
                                             Get(e_config, "phoneme_id_map", EmptyDict)))
    /\ UNCHANGED <<e_variant, e_config, e_text, e_gruut, e_out, s_phoneme, fbVars, onnxVars, genVars, concVars, dlVars>>
    /\ UNCHANGED <<envVars, objVars, fsVars, last, ref>>

NextSim == FindSimilar
SpecSim == InitSim /\ [][NextSim]_vars

\* ------------------------ encoder: one call of _generate_fallback_phonemes
\* Texts of every length up to past the cap, of letters or of digits.
FbTexts == {[i \in 1..n |-> c] : n \in 0..MaxFbLen, c \in {"a", "9"}}

InitFb ==
    /\ f_text \in FbTexts /\ f_out = NotCalled
    /\ e_variant = "orig" /\ e_config = EmptyDict /\ e_text = <<>>
    /\ e_gruut = NoGruut /\ e_out = NotCalled
    /\ IdleSimilar /\ IdleInputs /\ IdleGenerator /\ IdleCalls /\ IdleDownload
    /\ IdleObject

GenerateFallback ==
    /\ ~f_out.done
    /\ f_out' = Called(Ok(_generate_fallback_phonemes(f_text)))
    /\ UNCHANGED <<e_variant, e_config, e_text, e_gruut, e_out, simVars, f_text, onnxVars, genVars, concVars, dlVars>>
    /\ UNCHANGED <<envVars, objVars, fsVars, last, ref>>

NextFb == GenerateFallback
SpecFb == InitFb /\ [][NextFb]_vars

\* --------------------------------- one building of the ONNX input map
InputNames == {N_input, N_input_lengths, N_scales, N_Phoneme_ids, N_sid,
               N_phoneme_lengths, N_length_scale}
InputShapes == {<<1, 2>>, <<1>>, <<3>>, <<-1, -1>>}
PhonemeCounts == {2, 3}

InitInputs ==
    /\ o_variant \in {"fixed", "orig"}
    /\ o_names \in SUBSET InputNames
    /\ o_shape \in InputShapes
    /\ o_len \in PhonemeCounts
    /\ o_out = NotCalled
    /\ e_variant = "fixed" /\ e_config = EmptyDict /\ e_text = <<>>
    /\ e_gruut = NoGruut /\ e_out = NotCalled
    /\ IdleSimilar /\ IdleFallback /\ IdleGenerator /\ IdleCalls /\ IdleDownload
    /\ IdleObject

BuildInputsFixed ==
    /\ o_variant = "fixed" /\ ~o_out.done
    /\ o_out' = Called(Ok(onnx_inputs_fixed(o_names, o_shape, o_len)))
    /\ UNCHANGED <<o_variant, o_names, o_shape, o_len>>
    /\ UNCHANGED <<e_variant, e_config, e_text, e_gruut, e_out, simVars, fbVars, genVars, concVars, dlVars>>
    /\ UNCHANGED <<envVars, objVars, fsVars, last, ref>>

BuildInputsOrig ==
    /\ o_variant = "orig" /\ ~o_out.done
    /\ o_out' = Called(Ok(onnx_inputs_orig(o_names, o_shape, o_len)))
    /\ UNCHANGED <<o_variant, o_names, o_shape, o_len>>
    /\ UNCHANGED <<e_variant, e_config, e_text, e_gruut, e_out, simVars, fbVars, genVars, concVars, dlVars>>
    /\ UNCHANGED <<envVars, objVars, fsVars, last, ref>>

NextInputs == BuildInputsFixed \/ BuildInputsOrig
SpecInputs == InitInputs /\ [][NextInputs]_vars

\* ---------------------- the synthetic generator and the external tier
GenRates == {5, 10, 22050}
ExitStatuses == {0, 1, 2}

InitGen ==
    /\ g_text \in Texts /\ g_rate \in GenRates /\ g_exit \in ExitStatuses
    /\ g_out = NoAudioCall /\ x_out = NoAudioCall
    /\ e_variant = "fixed" /\ e_config = EmptyDict /\ e_text = <<>>
    /\ e_gruut = NoGruut /\ e_out = NotCalled
    /\ IdleSimilar /\ IdleFallback /\ IdleInputs /\ IdleCalls /\ IdleDownload
    /\ IdleObject

GenerateFallbackAudio ==
    /\ ~g_out.done
    /\ g_out' = Called(generate_fallback_audio(g_text, g_rate))
    /\ UNCHANGED <<g_text, g_rate, g_exit, x_out>>
    /\ UNCHANGED <<e_variant, e_config, e_text, e_gruut, e_out, simVars, fbVars, onnxVars, concVars, dlVars>>
    /\ UNCHANGED <<envVars, objVars, fsVars, last, ref>>

SynthesizeExternal ==
    /\ ~x_out.done
    /\ x_out' = Called(synthesize_external(g_text, g_rate, g_exit))
    /\ UNCHANGED <<g_text, g_rate, g_exit, g_out>>
    /\ UNCHANGED <<e_variant, e_config, e_text, e_gruut, e_out, simVars, fbVars, onnxVars, concVars, dlVars>>
    /\ UNCHANGED <<envVars, objVars, fsVars, last, ref>>

NextGen == GenerateFallbackAudio \/ SynthesizeExternal
SpecGen == InitGen /\ [][NextGen]_vars

\* ------------------------------------- the object: construction and calls
\* piper_inference imports onnxruntime and torch unconditionally: the module
\* only loads when both are there.
Environments ==
    {e \in [variant : {"fixed", "orig"}, onnx : BOOLEAN, torch : BOOLEAN,
            cfg : ConfigFiles, artifact : Artifacts] :
        e.variant = "orig" => e.onnx /\ e.torch}

NoEnvironment ==
    [variant |-> "fixed", onnx |-> TRUE, torch |-> TRUE,
     cfg |-> [state |-> "missing", content |-> EmptyDict], artifact |-> "missing"]

Init ==
    /\ \E e \in Environments :
        /\ variant = e.variant /\ ONNX_AVAILABLE = e.onnx
        /\ TORCH_AVAILABLE = e.torch /\ cfgfile = e.cfg /\ artifact = e.artifact
    /\ pc = "config"
    /\ session = None /\ model = None /\ config = EmptyDict
    /\ onnx_available = "unset" /\ pytorch_available = "unset"
    /\ probes = <<>> /\ loaded = {}
    /\ dirs = {} /\ files = [p \in OutputPaths |-> NoFile]
    /\ last = NoCall /\ ref = NoRef
    /\ IdleEncoder

\* open(config_path) and json.load: piper_inference_fixed absorbs a failure
\* and goes on with {}.
LoadConfigFixed ==
    /\ pc = "config" /\ variant = "fixed"
    /\ config' = IF cfgfile.state = "ok" THEN cfgfile.content ELSE EmptyDict
    /\ pc' = "onnx"
    /\ UNCHANGED <<session, model, onnx_available, pytorch_available, probes, loaded>>
    /\ UNCHANGED <<encVars, envVars, fsVars, last, ref>>

\* piper_inference lets the failure leave the constructor.
LoadConfigOrig ==
    /\ pc = "config" /\ variant = "orig"
    /\ IF cfgfile.state = "ok"
       THEN config' = cfgfile.content /\ pc' = "onnx"
       ELSE config' = config /\ pc' = "raised"
    /\ UNCHANGED <<session, model, onnx_available, pytorch_available, probes, loaded>>
    /\ UNCHANGED <<encVars, envVars, fsVars, last, ref>>

\* ort.InferenceSession(model_path): loads or raises, as the artifact decides.
ProbeOnnxFixed ==
    /\ pc = "onnx" /\ variant = "fixed"
    /\ IF ONNX_AVAILABLE
       THEN /\ \E ok \in LoadOutcomes("onnx", artifact) :
                /\ session' = IF ok THEN "InferenceSession" ELSE None
                /\ loaded' = IF ok THEN loaded \cup {"onnx"} ELSE loaded
            /\ probes' = Append(probes, "onnx")
       ELSE UNCHANGED <<session, probes, loaded>>
    /\ pc' = "torch"
    /\ UNCHANGED <<model, config, onnx_available, pytorch_available>>
    /\ UNCHANGED <<encVars, envVars, fsVars, last, ref>>

ProbeTorchFixedAlways ==
    /\ pc = "torch" /\ variant = "fixed"
    /\ IF TORCH_AVAILABLE
       THEN /\ \E ok \in LoadOutcomes("checkpoint", artifact) :
                /\ model' = IF ok THEN "Module" ELSE None
                /\ loaded' = IF ok THEN loaded \cup {"torch"} ELSE loaded
            /\ probes' = Append(probes, "torch")
       ELSE UNCHANGED <<model, probes, loaded>>
    /\ pc' = "ready"
    /\ UNCHANGED <<session, config, onnx_available, pytorch_available>>
    /\ UNCHANGED <<encVars, envVars, fsVars, last, ref>>

\* torch.load(model_path) and .eval(), only without a session.
ProbeTorchFixed ==
    /\ pc = "torch" /\ variant = "fixed"
    /\ IF session = None /\ TORCH_AVAILABLE
       THEN /\ \E ok \in LoadOutcomes("checkpoint", artifact) :
                /\ model' = IF ok THEN "Module" ELSE None
                /\ loaded' = IF ok THEN loaded \cup {"torch"} ELSE loaded
            /\ probes' = Append(probes, "torch")
       ELSE UNCHANGED <<model, probes, loaded>>
    /\ pc' = "ready"
    /\ UNCHANGED <<session, config, onnx_available, pytorch_available>>
    /\ UNCHANGED <<encVars, envVars, fsVars, last, ref>>

ProbeOnnxOrig ==
    /\ pc = "onnx" /\ variant = "orig"
    /\ \E ok \in LoadOutcomes("onnx", artifact) :
        IF ok
        THEN /\ session' = "InferenceSession" /\ onnx_available' = "True"
             /\ loaded' = loaded \cup {"onnx"} /\ pc' = "ready"
        ELSE /\ session' = session /\ onnx_available' = "False"
             /\ loaded' = loaded /\ pc' = "torch"
    /\ probes' = Append(probes, "onnx")
    /\ UNCHANGED <<model, config, pytorch_available>>
    /\ UNCHANGED <<encVars, envVars, fsVars, last, ref>>

\* SimpleVITS.load_from_checkpoint, inside the handler of the ONNX failure.
ProbeTorchOrig ==
    /\ pc = "torch" /\ variant = "orig"
    /\ \E ok \in LoadOutcomes("checkpoint", artifact) :
        IF ok
        THEN /\ model' = "Module" /\ pytorch_available' = "True"
             /\ loaded' = loaded \cup {"torch"}
        ELSE /\ model' = model /\ pytorch_available' = "False"
             /\ loaded' = loaded
    /\ probes' = Append(probes, "torch")
    /\ pc' = "ready"
    /\ UNCHANGED <<session, config, onnx_available>>
    /\ UNCHANGED <<encVars, envVars, fsVars, last, ref>>

\* The tier the constructor left ready.
ReadyTier ==
    IF variant = "fixed"
    THEN IF session # None THEN "onnx" ELSE IF model # None THEN "pytorch" ELSE "synthetic"
    ELSE IF onnx_available = "True" THEN "onnx"
    ELSE IF pytorch_available = "True" THEN "pytorch" ELSE "synthetic"

\* The readiness accessor of piper_inference_fixed.
test_model_loading ==
    [onnx_available |-> ONNX_AVAILABLE, torch_available |-> TORCH_AVAILABLE,
     session_loaded |-> session # None, model_loaded |-> model # None,
     config_loaded |-> config # EmptyDict,
     ready |-> (session # None \/ model # None)]

CallRecord(text, output_path, sample_rate, r) ==
    [done |-> TRUE, text |-> text, output_path |-> output_path,
     sample_rate |-> sample_rate, ready |-> ReadyTier, exc |-> r.exc,
     audio |-> r.audio, tried |-> r.tried, backend_exc |-> r.backend_exc,
     wrote |-> r.wrote, scales |-> r.scales, language |-> r.language]

\* sf.write(output_path, audio, rate), after the directories were made.
Sink(output_path, rate, r) ==
    /\ dirs' = dirs \cup r.made
    /\ files' = IF r.wrote
                THEN [files EXCEPT ![output_path] =
                        [exists |-> TRUE, audio |-> r.audio, rate |-> rate]]
                ELSE files

\* What a synthesize call with outcome r does to the object's attributes:
\* neither module assigns one outside its constructor.
SelfAfterSynthesizeDemoting(r) ==
    /\ session' = IF r.backend_exc THEN None ELSE session
    /\ UNCHANGED <<model, config, onnx_available, pytorch_available>>
SelfAfterSynthesize(r) == UNCHANGED selfVars

SynthesizeFixed ==
    /\ pc = "ready" /\ variant = "fixed"
    /\ \E text \in SynthTexts, output_path \in OutputPaths \cup {NoPath},
          sample_rate \in SampleRates,
          onnx_run \in IF session # None THEN Outcomes ELSE {"ok"},
          torch_run \in IF model # None THEN Outcomes ELSE {"ok"} :
        \E r \in {synthesize_fixed(session, model, config, text, output_path,
                                  sample_rate, onnx_run, torch_run)} :
            /\ last' = CallRecord(text, output_path, sample_rate, r)
            /\ Sink(output_path, sample_rate, r)
            /\ ref' = IF /\ session = None /\ model = None
                          /\ output_path = NoPath /\ ~ref.set
                       THEN [set |-> TRUE, text |-> text, sample_rate |-> sample_rate,
                             exc |-> r.exc, audio |-> r.audio]
                       ELSE ref
            /\ SelfAfterSynthesize(r)
    /\ UNCHANGED <<pc, probes, loaded, encVars, envVars>>

SynthesizeOrig ==
    /\ pc = "ready" /\ variant = "orig"
    /\ \E text \in SynthTexts, output_path \in OutputPaths \cup {NoPath},
          backend_run \in IF ReadyTier = "synthetic" THEN {"ok"} ELSE Outcomes :
        \E gruut \in {g \in GruutResults(text) :
                        \A i \in 1..Len(g.words) : g.words[i].phonemes = <<>>} :
            \E r \in {synthesize_orig(onnx_available, pytorch_available, config,
                                      text, gruut, output_path, backend_run)},
               rate \in {Get(Get(config, "audio", EmptyDict), "sample_rate", 22050)} :
                /\ last' = CallRecord(text, output_path, rate, r)
                /\ Sink(output_path, rate, r)
                /\ SelfAfterSynthesize(r)
    /\ UNCHANGED <<pc, probes, loaded, encVars, envVars, ref>>

\* The run ends: the object is dropped (or its constructor raised) and the
\* next run starts in an empty output directory.
Drop ==
    /\ pc \in {"ready", "raised"}
    /\ pc' = "dropped"
    /\ variant' = NoEnvironment.variant /\ ONNX_AVAILABLE' = NoEnvironment.onnx
    /\ TORCH_AVAILABLE' = NoEnvironment.torch /\ cfgfile' = NoEnvironment.cfg
    /\ artifact' = NoEnvironment.artifact
    /\ session' = None /\ model' = None /\ config' = EmptyDict
    /\ onnx_available' = "unset" /\ pytorch_available' = "unset"
    /\ probes' = <<>> /\ loaded' = {}
    /\ last' = NoCall
    /\ dirs' = {} /\ files' = [p \in OutputPaths |-> NoFile]
    /\ UNCHANGED <<encVars, ref>>

\* PiperTTSInference(model_path, config_path) is entered again, in a process
\* and with files of the caller's choosing.
Construct ==
    /\ pc = "dropped"
    /\ \E e \in Environments :
        /\ variant' = e.variant /\ ONNX_AVAILABLE' = e.onnx
        /\ TORCH_AVAILABLE' = e.torch /\ cfgfile' = e.cfg /\ artifact' = e.artifact
    /\ pc' = "config"
    /\ UNCHANGED <<selfVars, probes, loaded, encVars, fsVars, last, ref>>

Next ==
    \/ LoadConfigFixed \/ LoadConfigOrig
    \/ ProbeOnnxFixed \/ ProbeTorchFixed
    \/ ProbeOnnxOrig \/ ProbeTorchOrig
    \/ SynthesizeFixed \/ SynthesizeOrig
    \/ Drop \/ Construct

Spec == Init /\ [][Next]_vars

\* ------------------------- concurrent synthesize calls on one object
\* The objects the constructor of piper_inference_fixed leaves ready.
ReadyVoices ==
    {[artifact |-> "onnx", session |-> "InferenceSession", model |-> None,
      probes |-> <<"onnx">>, loaded |-> {"onnx"}],
     [artifact |-> "checkpoint", session |-> None, model |-> "Module",
      probes |-> <<"onnx", "torch">>, loaded |-> {"torch"}],
     [artifact |-> "missing", session |-> None, model |-> None,
      probes |-> <<"onnx", "torch">>, loaded |-> {}]}
ConcPaths == {NoPath, <<"out", "sub", "a.wav">>}
ConcConfigs == {EmptyDict, PiperConfig}

NewThreadCalls(v) ==
    {[NoThreadCall EXCEPT !.pc = "encode", !.text = text, !.output_path = path,
                          !.onnx_run = onnx_run, !.torch_run = torch_run] :
        text \in SynthTexts, path \in ConcPaths,
        onnx_run \in IF v.session # None THEN Outcomes ELSE {"ok"},
        torch_run \in IF v.model # None THEN Outcomes ELSE {"ok"}}

InitConc ==
    /\ \E v \in ReadyVoices, c \in ConcConfigs :
        /\ artifact = v.artifact /\ session = v.session /\ model = v.model
        /\ probes = v.probes /\ loaded = v.loaded
        /\ config = c /\ cfgfile = [state |-> "ok", content |-> c]
        /\ voice0 = <<v.session, v.model, c>>
        /\ calls \in [Threads -> NewThreadCalls(v)]
    /\ variant = "fixed" /\ ONNX_AVAILABLE = TRUE /\ TORCH_AVAILABLE = TRUE
    /\ pc = "ready" /\ onnx_available = "unset" /\ pytorch_available = "unset"
    /\ dirs = {} /\ files = [p \in OutputPaths |-> NoFile]
    /\ last = NoCall /\ ref = NoRef
    /\ e_variant = "fixed" /\ e_config = EmptyDict /\ e_text = <<>>
    /\ e_gruut = NoGruut /\ e_out = NotCalled
    /\ IdleSimilar /\ IdleFallback /\ IdleInputs /\ IdleGenerator /\ IdleDownload

ConcFrame ==
    /\ UNCHANGED <<pc, probes, loaded, envVars, last, ref, voice0>>
    /\ UNCHANGED <<e_variant, e_config, e_text, e_gruut, e_out, simVars, fbVars,
                   onnxVars, genVars, dlVars>>

\* language = self.config.get(...); phonemes = self.text_to_phonemes(...)
ThreadEncode(t) ==
    /\ calls[t].pc = "encode"
    /\ \E ph \in {text_to_phonemes_fixed(config, calls[t].text)} :
        calls' = [calls EXCEPT ![t] =
            IF ph.exc # ""
            THEN [@ EXCEPT !.pc = "handler"]
            ELSE [@ EXCEPT !.pc = "select", !.phonemes = ph.val]]
    /\ UNCHANGED <<selfVars, fsVars>>
    /\ ConcFrame

\* if self.session: ... elif self.model: ... else: the synthetic generator
ThreadSelect(t) ==
    /\ calls[t].pc = "select"
    /\ LET c == calls[t]
           synth == generate_fallback_audio(c.text, c.sample_rate)
       IN  IF session # None
           THEN /\ calls' = [calls EXCEPT ![t] =
                    IF c.onnx_run = "ok"
                    THEN [@ EXCEPT !.pc = "save", !.tried = <<"onnx">>,
                                   !.audio = BackendAudio("onnx", c.phonemes)]
                    ELSE [@ EXCEPT !.pc = "retry", !.tried = <<"onnx">>,
                                   !.backend_exc = TRUE]]
                /\ SelfAfterSynthesize([backend_exc |-> c.onnx_run # "ok"])
           ELSE IF model # None
           THEN /\ calls' = [calls EXCEPT ![t] =
                    IF c.torch_run = "ok"
                    THEN [@ EXCEPT !.pc = "save", !.tried = <<"pytorch">>,
                                   !.audio = BackendAudio("pytorch", c.phonemes)]
                    ELSE [@ EXCEPT !.pc = "handler", !.tried = <<"pytorch">>,
                                   !.backend_exc = TRUE]]
                /\ SelfAfterSynthesize([backend_exc |-> c.torch_run # "ok"])
           ELSE /\ calls' = [calls EXCEPT ![t] =
                    IF synth.exc = ""
                    THEN [@ EXCEPT !.pc = "save", !.tried = <<"synthetic">>,
                                   !.audio = synth.val]
                    ELSE [@ EXCEPT !.pc = "handler", !.tried = <<"synthetic">>]]
                /\ SelfAfterSynthesize([backend_exc |-> FALSE])
    /\ UNCHANGED fsVars
    /\ ConcFrame

\* except Exception (of the ONNX run): if self.model: ... else: raise
ThreadRetry(t) ==
    /\ calls[t].pc = "retry"
    /\ LET c == calls[t]
       IN  calls' = [calls EXCEPT ![t] =
               IF model # None
               THEN IF c.torch_run = "ok"
                    THEN [@ EXCEPT !.pc = "save", !.tried = Append(c.tried, "pytorch"),
                                   !.audio = BackendAudio("pytorch", c.phonemes)]
                    ELSE [@ EXCEPT !.pc = "handler",
                                   !.tried = Append(c.tried, "pytorch")]
               ELSE [@ EXCEPT !.pc = "handler"]]
    /\ UNCHANGED <<selfVars, fsVars>>
    /\ ConcFrame

\* if output_path: os.makedirs(...); sf.write(...); return audio
ThreadSave(t) ==
    /\ calls[t].pc = "save"
    /\ LET c == calls[t]
           md == IF c.output_path # NoPath THEN makedirs(dirname(c.output_path))
                 ELSE [exc |-> "", made |-> {}]
       IN  IF md.exc # ""
           THEN /\ calls' = [calls EXCEPT ![t] = [@ EXCEPT !.pc = "handler"]]
                /\ UNCHANGED fsVars
           ELSE /\ calls' = [calls EXCEPT ![t] =
                        [@ EXCEPT !.pc = "done", !.wrote = c.output_path # NoPath]]
                /\ dirs' = dirs \cup md.made
                /\ files' = IF c.output_path # NoPath
                            THEN [files EXCEPT ![c.output_path] =
                                    [exists |-> TRUE, audio |-> c.audio,
                                     rate |-> c.sample_rate]]
                            ELSE files
    /\ UNCHANGED selfVars
    /\ ConcFrame

\* except Exception: return self.generate_fallback_audio(text, sample_rate)
ThreadHandler(t) ==
    /\ calls[t].pc = "handler"
    /\ LET c == calls[t]
           final == generate_fallback_audio(c.text, c.sample_rate)
       IN  calls' = [calls EXCEPT ![t] =
               [@ EXCEPT !.pc = "done", !.exc = final.exc, !.audio = final.val,
                         !.tried = Append(c.tried, "synthetic")]]
    /\ UNCHANGED <<selfVars, fsVars>>
    /\ ConcFrame

NextConc ==
    \E t \in Threads :
        \/ ThreadEncode(t) \/ ThreadSelect(t) \/ ThreadRetry(t)
        \/ ThreadSave(t) \/ ThreadHandler(t)
SpecConc == InitConc /\ [][NextConc]_vars

\* ------------------------------------------ download_voices: one voice
\* The catalogue's files of a voice: each kind at most once, in any order.
VoiceFiles ==
    {fs \in UNION {[1..n -> [rel : FileKinds, md5 : {None, GoodMd5}]] : n \in 0..3} :
        /\ \A i, j \in 1..Len(fs) : i # j => fs[i].rel # fs[j].rel
        /\ \A i \in 1..Len(fs) : fs[i].rel = "MODEL_CARD" => fs[i].md5 = None}

InitDl ==
    /\ d_files \in VoiceFiles /\ d_skip \in BOOLEAN
    /\ d_disk \in [Destinations -> {"absent", GoodMd5, OtherMd5}]
    /\ d_i = 1 /\ d_success = TRUE /\ d_pc = "loop" /\ d_log = <<>>
    /\ e_variant = "fixed" /\ e_config = EmptyDict /\ e_text = <<>>
    /\ e_gruut = NoGruut /\ e_out = NotCalled
    /\ IdleSimilar /\ IdleFallback /\ IdleInputs /\ IdleGenerator /\ IdleCalls
    /\ IdleObject

DlFrame ==
    /\ UNCHANGED <<e_variant, e_config, e_text, e_gruut, e_out, simVars, fbVars,
                   onnxVars, genVars, concVars>>
    /\ UNCHANGED <<envVars, objVars, fsVars, last, ref>>

\* One turn of the loop, the server answering as it will.
DownloadFile ==
    /\ d_pc = "loop" /\ d_i <= Len(iter_voice_files(d_files))
    /\ \E response \in Responses :
        LET file == iter_voice_files(d_files)[d_i]
            r == download_one(d_disk, d_skip, file, response)
        IN  /\ d_disk' = r.disk
            /\ d_success' = IF r.failed THEN FALSE ELSE d_success
            /\ d_log' = Append(d_log, [rel |-> file.rel, md5 |-> file.md5,
                                        before |-> d_disk[file.rel],
                                        response |-> response, action |-> r.action])
    /\ d_i' = d_i + 1
    /\ UNCHANGED <<d_files, d_skip, d_pc>>
    /\ DlFrame

\* return success
ReturnSuccess ==
    /\ d_pc = "loop" /\ d_i > Len(iter_voice_files(d_files))
    /\ d_pc' = "returned"
    /\ UNCHANGED <<d_files, d_skip, d_disk, d_i, d_success, d_log>>
    /\ DlFrame

NextDl == DownloadFile \/ ReturnSuccess
SpecDl == InitDl /\ [][NextDl]_vars

\* ---------------------------------------------------------------- claims
\* C1: in piper_inference_fixed, whatever tier is ready and for every
\* non-empty text, a call during which the ONNX or PyTorch backend raised
\* does not raise to its caller: it returns a waveform.
C1_BackendErrorAbsorbed ==
    (last.done /\ variant = "fixed" /\ last.backend_exc /\ last.text # <<>>)
        => last.exc = ""

\* C2: after a backend failed at call time, the tiers attempted in the call
\* are, in order and without a gap, those of onnx -> pytorch -> external ->
\* synthetic from the ready tier on.
TierOrder == <<"onnx", "pytorch", "external", "synthetic">>
TierIndex(tier) == CHOOSE i \in 1..Len(TierOrder) : TierOrder[i] = tier
C2_StrictTierOrder ==
    (last.done /\ last.backend_exc) =>
        \A i \in 1..Len(last.tried) :
            /\ TierIndex(last.ready) + i - 1 <= Len(TierOrder)
            /\ last.tried[i] = TierOrder[TierIndex(last.ready) + i - 1]

\* C3: the constructor probes PyTorch only after the ONNX probe failed or
\* onnxruntime is missing, and with no session; each probe is made at most
\* once; no probe makes the constructor raise; and the constructed object's
\* ready tier is the synthetic one exactly when neither probe loaded.
C3_ProbeOrder ==
    /\ "torch" \in {probes[i] : i \in 1..Len(probes)} =>
        /\ session = None
        /\ \/ probes = <<"onnx", "torch">>
           \/ variant = "fixed" /\ ~ONNX_AVAILABLE /\ probes = <<"torch">>
    /\ probes \in {<<>>, <<"onnx">>, <<"torch">>, <<"onnx", "torch">>}
    /\ pc = "raised" => probes = <<>>
    /\ pc = "ready" =>
        /\ (ReadyTier = "onnx") = (session # None)
        /\ (ReadyTier = "pytorch") = (model # None)
        /\ (ReadyTier = "synthetic") = (session = None /\ model = None)
C3_BothProbesFailed ==
    /\ pc = "ready" /\ probes = <<"onnx", "torch">>
    /\ session = None /\ model = None /\ ReadyTier = "synthetic"

\* C4: a synthesize call changes none of session, model, config (nor the
\* flags piper_inference keeps), whether it succeeds or a backend fails, so
\* the tier that is ready stays the one the next call attempts.
C4_ReadinessKept ==
    [][(pc = "ready" /\ pc' = "ready") =>
        /\ session' = session /\ model' = model /\ config' = config
        /\ onnx_available' = onnx_available
        /\ pytorch_available' = pytorch_available
        /\ ReadyTier' = ReadyTier]_vars
C4_FailedTierStillLoaded ==
    /\ variant = "fixed" /\ last.done /\ last.backend_exc /\ last.exc = ""
    /\ last.ready = "onnx" /\ session # None /\ ReadyTier = "onnx"

\* A well-formed table has '_' and '$' and no symbol with an empty id list;
\* an empty or absent table stands for the default table.
EncTable == Get(e_config, "phoneme_id_map", EmptyDict)
EffectiveTable == IF DOMAIN EncTable = {} THEN _create_default_phoneme_map ELSE EncTable
WellFormedTable ==
    /\ {"_", "$"} \subseteq DOMAIN EffectiveTable
    /\ \A s \in DOMAIN EffectiveTable : EffectiveTable[s] # <<>>

\* C5: for every non-empty text and every (well-formed, empty or absent)
\* table, text_to_phonemes of either module returns a sequence that begins
\* with the table's id for '_', ends with its id for '$', and has every
\* element in 0..maxId, the largest id of the table; also on the
\* fallback-generator path.
C5_FramedAndBounded ==
    (e_out.done /\ e_text # <<>> /\ WellFormedTable) =>
        /\ e_out.exc = ""
        /\ Len(e_out.val) >= 2
        /\ e_out.val[1] = EffectiveTable["_"][1]
        /\ e_out.val[Len(e_out.val)] = EffectiveTable["$"][1]
        /\ \A i \in 1..Len(e_out.val) :
            e_out.val[i] \in 0..MaxId(EffectiveTable).val

\* C6: when the table is empty or absent, the encoder of either module
\* encodes with the default table in its place: it returns what it returns
\* for a configuration carrying the default table, and does not raise.
C6_DefaultTableSubstituted ==
    (e_out.done /\ DOMAIN EncTable = {}) =>
        /\ e_out.exc = ""
        /\ e_out.val =
            (IF e_variant = "fixed"
             THEN text_to_phonemes_fixed("phoneme_id_map" :> _create_default_phoneme_map,
                                         e_text)
             ELSE text_to_phonemes_orig("phoneme_id_map" :> _create_default_phoneme_map,
                                        e_text, e_gruut)).val

\* C7: for the empty text, text_to_phonemes of either module returns exactly
\* <<BOS id, EOS id>>, the table's ids for '_' and '$', for every
\* (well-formed, empty or absent) table.
C7_EmptyTextFrame ==
    (e_out.done /\ e_text = <<>> /\ WellFormedTable) =>
        /\ e_out.exc = ""
        /\ e_out.val = <<EffectiveTable["_"][1], EffectiveTable["$"][1]>>

\* The phoneme encoder returned in the last call of piper_inference_fixed
\* (piper_inference's encoder always returns).
EncoderReturned ==
    variant = "fixed" => text_to_phonemes_fixed(config, last.text).exc = ""

\* C8: with no backend loaded, piper_inference_fixed's synthesize on the
\* empty text (at the default sample rate, the encoder having returned)
\* returns a buffer of at least one sample and does not raise.
C8_EmptyTextNonEmptyBuffer ==
    (/\ last.done /\ variant = "fixed" /\ last.ready = "synthetic"
     /\ last.text = <<>> /\ last.sample_rate = 22050 /\ EncoderReturned)
        => (last.exc = "" /\ last.audio.n > 0)

\* C9: with no backend loaded, two synthesize calls of piper_inference_fixed
\* with the same text and sample rate end alike (the same waveform), whichever
\* object made them and whatever was called before.
C9_Deterministic ==
    (/\ ref.set /\ last.done /\ variant = "fixed" /\ last.ready = "synthetic"
     /\ last.text = ref.text /\ last.sample_rate = ref.sample_rate)
        => (last.exc = ref.exc /\ last.audio = ref.audio)
C9_TwoCallsAgree ==
    /\ ref.set /\ last.done /\ variant = "fixed" /\ last.ready = "synthetic"
    /\ last.text = ref.text /\ last.sample_rate = ref.sample_rate
    /\ last.output_path = <<"out.wav">> /\ last.tried = <<"synthetic", "synthetic">>
    /\ last.exc = "" /\ last.audio.n > 0 /\ config # EmptyDict

\* C10: a synthesize call that was given an output path and returned a
\* waveform (its encoder having returned) has made the directories above the path and written that
\* waveform to it: when the ready backend succeeded, when only the synthetic
\* generator was there, and when the backend failed and the synthetic
\* generator stood in.
C10_ReturnedIsWritten ==
    (last.done /\ last.exc = "" /\ last.output_path # NoPath /\ EncoderReturned) =>
        /\ files[last.output_path].exists
        /\ files[last.output_path].audio = last.audio
        /\ \A k \in 1..(Len(last.output_path) - 1) :
            SubSeq(last.output_path, 1, k) \in dirs

\* C11: when the configuration file is missing or is not valid JSON, the
\* constructor raises: it never goes on to the probes, no object comes to be
\* ready, and so no synthesize call is made on such a voice.
C11_ConfigFailureSurfaced ==
    (cfgfile.state # "ok" /\ pc \in {"onnx", "torch", "ready", "raised"}) =>
        (pc = "raised" /\ ~last.done)

\* C12: when nothing exists at the model path, the constructor raises: no
\* object comes to be ready (in a demoted or synthetic-only state) and no
\* synthesize call is made on it.
C12_MissingArtifactSurfaced ==
    artifact = "missing" => (pc # "ready" /\ ~last.done)

\* The configuration with every omitted field given its documented default.
WithDefaults(c) ==
    LET inference == Get(c, "inference", EmptyDict)
        audio == Get(c, "audio", EmptyDict)
    IN  ("phoneme_id_map" :>
            (IF DOMAIN Get(c, "phoneme_id_map", EmptyDict) = {}
             THEN _create_default_phoneme_map ELSE c["phoneme_id_map"]))
        @@ ("audio" :> [sample_rate |-> Get(audio, "sample_rate", 22050)])
        @@ ("language" :> Get(c, "language", "pt"))
        @@ ("inference" :> [noise_scale |-> Get(inference, "noise_scale", 667),
                            length_scale |-> Get(inference, "length_scale", 1000),
                            noise_w |-> Get(inference, "noise_w", 800)])

\* C13: in piper_inference_fixed, a configuration that loads never makes the
\* constructor raise, and a synthesize call on it ends as it would with every
\* omitted field spelled out with its default (scales 0.667, 1.0, 0.8, rate
\* 22050, language "pt", the default table): the same outcome, waveform,
\* scales and language.  Omitting a field makes nothing raise.
C13_OmittedFieldsDefault ==
    /\ (variant = "fixed" /\ cfgfile.state = "ok") => pc # "raised"
    /\ (variant = "fixed" /\ last.done) =>
        LET run == IF last.backend_exc THEN "raise" ELSE "ok"
            r == synthesize_fixed(session, model, WithDefaults(config), last.text,
                                  last.output_path, last.sample_rate, run, run)
        IN  /\ last.exc = r.exc /\ last.audio = r.audio /\ last.wrote = r.wrote
            /\ last.scales = r.scales /\ last.language = r.language
            /\ (config = EmptyDict /\ last.tried # <<>> /\ last.tried[1] = "onnx") =>
                    last.scales = <<667, 1000, 800>>
            /\ config = EmptyDict => last.language = "pt"
C13_EmptyConfigOnnxCall ==
    /\ variant = "fixed" /\ cfgfile.state = "ok" /\ config = EmptyDict
    /\ last.done /\ last.exc = "" /\ last.tried = <<"onnx">>
    /\ last.scales = <<667, 1000, 800>> /\ last.language = "pt"

\* C14: on an object of piper_inference_fixed whose ONNX probe raised,
\* test_model_loading reports session_loaded false, model_loaded true exactly
\* when the PyTorch probe loaded, ready = session_loaded or model_loaded, and
\* every synthesize call made on it (its encoder having returned) returns a
\* waveform.
C14_ReadinessAfterOnnxFailure ==
    (/\ variant = "fixed" /\ pc = "ready"
     /\ "onnx" \in {probes[i] : i \in 1..Len(probes)} /\ "onnx" \notin loaded) =>
        /\ ~test_model_loading.session_loaded
        /\ test_model_loading.model_loaded = ("torch" \in loaded)
        /\ test_model_loading.ready =
            (test_model_loading.session_loaded \/ test_model_loading.model_loaded)
        /\ (last.done /\ EncoderReturned) => (last.exc = "" /\ last.audio.n > 0)

\* The rate the voice is to be rendered at: the call's sample_rate when it
\* gives one (22050 is the parameter's default, the call that gives none),
\* else the configuration's audio.sample_rate, else 22050.
EffectiveRate ==
    IF last.sample_rate # 22050 THEN last.sample_rate
    ELSE Get(Get(config, "audio", EmptyDict), "sample_rate", 22050)

\* C15: a synthesize call that returned has written its file at the
\* effective rate, and the synthetic waveform of piper_inference_fixed has
\* the length of its text at that rate (a tenth of a second per character).
C15_RateOfDescriptor ==
    (last.done /\ last.exc = "" /\ EncoderReturned) =>
        /\ last.wrote => files[last.output_path].rate = EffectiveRate
        /\ (variant = "fixed" /\ last.audio.src = "synthetic") =>
            last.audio.n = (EffectiveRate * Len(last.text)) \div 10

\* C16: for a symbol that is not in the (well-formed) table,
\* _find_similar_phoneme returns the table's id of the symbol's substitute in
\* the similarity map when the symbol is in the map and the substitute in
\* the table, and otherwise the table's id of 'a', or 14 without 'a'; U+0251
\* gives the id of 'a'.
C16_SimilarPhoneme ==
    LET table == Get(e_config, "phoneme_id_map", EmptyDict)
    IN  (/\ s_out.done /\ s_phoneme \notin DOMAIN table
         /\ \A sym \in DOMAIN table : table[sym] # <<>>) =>
            /\ s_out.exc = ""
            /\ \/ /\ s_phoneme \in DOMAIN similar_map
                  /\ similar_map[s_phoneme] \in DOMAIN table
                  /\ s_out.val = table[similar_map[s_phoneme]][1]
               \/ /\ ~(/\ s_phoneme \in DOMAIN similar_map
                        /\ similar_map[s_phoneme] \in DOMAIN table)
                  /\ s_out.val = IF "a" \in DOMAIN table THEN table["a"][1] ELSE 14
            /\ (s_phoneme = "U0251" /\ "a" \in DOMAIN table) => s_out.val = table["a"][1]
            /\ (s_phoneme = "U0292" /\ "z" \in DOMAIN table) => s_out.val = table["z"][1]
C16_SubstituteFound ==
    /\ s_out.done /\ s_phoneme = "U0292" /\ e_config = "phoneme_id_map" :> PiperTable
    /\ s_out.exc = "" /\ s_out.val = 38

\* The encoder went character by character: piper_inference_fixed always
\* does, piper_inference does for the words gruut gives no phonemes for.
CharByChar ==
    \/ e_variant = "fixed"
    \/ /\ e_variant = "orig" /\ DOMAIN EncTable # {} /\ ~e_gruut.raises
       /\ \A w \in 1..Len(e_gruut.words) : e_gruut.words[w].phonemes = <<>>

\* C17: when the encoder goes character by character over a text without
\* whitespace, a character with no entry in the (well-formed) table is
\* encoded as the placeholder vowel: the table's id of 'a' (14 without 'a',
\* bounded by the table's largest id), never as the separator.
C17_UnknownCharIsPlaceholder ==
    (/\ e_out.done /\ e_out.exc = "" /\ CharByChar /\ WellFormedTable
     /\ \A i \in 1..Len(e_text) : ~IsSpace(e_text[i])) =>
        \A i \in 1..Len(e_text) :
            LowerChar(e_text[i]) \notin DOMAIN EffectiveTable =>
                e_out.val[i + 1] =
                    Min(IF "a" \in DOMAIN EffectiveTable THEN EffectiveTable["a"][1] ELSE 14,
                        MaxId(EffectiveTable).val)

\* C18: text_to_phonemes of either module never raises, whatever the text,
\* the table (an entry with an empty id list included) and gruut's outcome:
\* it returns a sequence of at least two ids.
C18_EncoderNeverRaises ==
    e_out.done => (e_out.exc = "" /\ Len(e_out.val) >= 2)

\* C19: _generate_fallback_phonemes returns, for n = min(len(text), 50):
\* BOS 1; then for i = 0..n-1 the vowel-pool id of index i mod 5 when i is
\* even, the consonant-pool id of index i mod 18 when i is odd, with the
\* separator 3 right after each token of i mod 4 = 3; then EOS 2; and
\* nothing else, so the result depends on n alone and is never empty.
C19_FallbackPattern ==
    f_out.done =>
        LET n == IF Len(f_text) < 50 THEN Len(f_text) ELSE 50
            out == f_out.val
        IN  /\ f_out.exc = ""
            /\ Len(out) = 2 + n + (n \div 4)
            /\ out[1] = 1 /\ out[Len(out)] = 2
            /\ \A i \in 0..(n - 1) :
                /\ out[2 + i + (i \div 4)] =
                    (IF i % 2 = 0 THEN <<14, 18, 21, 27, 33>>[(i % 5) + 1]
                     ELSE <<15, 17, 19, 20, 23, 24, 25, 26, 28, 29, 30, 31, 32, 34,
                            35, 36, 37, 38>>[(i % 18) + 1])
                /\ i % 4 = 3 => out[3 + i + (i \div 4)] = 3
C19_CappedAtFifty ==
    /\ f_out.done /\ Len(f_text) = 52 /\ f_text[1] = "9"
    /\ Len(f_out.val) = 64 /\ f_out.val[61] = 3 /\ f_out.val[63] = 34
    /\ f_out.val[64] = 2

\* C20: the input map built for the ONNX run has an entry for exactly the
\* names the session expects: 'input', 'input_lengths' and 'scales' get the
\* phoneme ids, the length and the scales, and a name matched to no role
\* gets a placeholder.
C20_EveryInputFilled ==
    o_out.done =>
        /\ DOMAIN o_out.val = o_names
        /\ N_input \in o_names => o_out.val[N_input] = "phoneme_input"
        /\ N_input_lengths \in o_names => o_out.val[N_input_lengths] = "input_lengths"
        /\ N_scales \in o_names => o_out.val[N_scales] = "scales"

\* C21: a waveform the synthetic generator returns has a peak absolute
\* amplitude of at most 1.0, and of exactly 0.8 whenever its text has an
\* alphabetic character.
C21_PeakBounded ==
    (g_out.done /\ g_out.exc = "") =>
        /\ FallbackPeak(g_out.val) <= 1000
        /\ (\E i \in 1..Len(g_text) : IsAlpha(LowerChar(g_text[i]))) =>
                FallbackPeak(g_out.val) = 800

\* C23: when a call reaches the external-process tier and the tool exits
\* with a non-zero status, synthesize raises nothing to its caller and
\* returns a waveform whose provenance is "synthetic".
C23_ExternalFailureFallsThrough ==
    (x_out.done /\ g_exit # 0) =>
        (x_out.exc = "" /\ x_out.val.src = "synthetic")

\* C22: while two synthesize calls run concurrently on one object of
\* piper_inference_fixed, whatever the interleaving of their steps, the
\* object's session, model and config stay what they were when the calls
\* began, and a call that has ended has ended as it would have alone:
\* the same outcome, waveform, tiers attempted and file written.
C22_ConcurrentCallsIndependent ==
    /\ <<session, model, config>> = voice0
    /\ \A t \in Threads :
        calls[t].pc = "done" =>
            LET c == calls[t]
                r == synthesize_fixed(voice0[1], voice0[2], voice0[3], c.text,
                                      c.output_path, c.sample_rate, c.onnx_run,
                                      c.torch_run)
            IN  /\ c.exc = r.exc /\ c.audio = r.audio /\ c.tried = r.tried
                /\ c.wrote = r.wrote /\ c.backend_exc = r.backend_exc
C22_OneFailedWhileOtherRan ==
    /\ calls[1].pc = "retry" /\ calls[1].backend_exc
    /\ calls[2].pc = "done" /\ calls[2].tried = <<"onnx">> /\ calls[2].exc = ""
    /\ calls[2].wrote /\ session # None

\* C24: with --skip-existing, a destination file that exists is left
\* untouched only when its hash is valid (its MD5 is the catalogue's
\* md5_digest); one whose hash does not match, or cannot be checked, is not
\* skipped: it is downloaded again.
C24_SkipOnlyValidFiles ==
    \A k \in 1..Len(d_log) :
        (d_skip /\ d_log[k].before # "absent") =>
            IF d_log[k].md5 # None /\ d_log[k].before = d_log[k].md5
            THEN d_log[k].action \in {"skipped", "kept"}
            ELSE d_log[k].action \in {"saved", "failed"}

\* The download of the k-th file raised, or its MD5 check failed.
DownloadFailed(k) ==
    /\ d_log[k].action \notin {"skipped", "kept"}
    /\ \/ d_log[k].response \in {"http_error", "broken_stream"}
       \/ d_log[k].md5 # None /\ d_log[k].response # d_log[k].md5

\* C25: when download_voice has returned, every file of the voice was
\* visited (those after a failed one too), no file is left at the
\* destination of a file whose download raised or whose MD5 check failed,
\* and the value returned is False exactly when some file failed.
C25_FailedFilesRemoved ==
    d_pc = "returned" =>
        /\ Len(d_log) = Len(iter_voice_files(d_files))
        /\ \A k \in 1..Len(d_log) :
            /\ d_log[k].rel = iter_voice_files(d_files)[k].rel
            /\ DownloadFailed(k) => d_disk[d_log[k].rel] = "absent"
        /\ (d_success = FALSE) = (\E k \in 1..Len(d_log) : DownloadFailed(k))
C25_FailedThenSaved ==
    /\ d_pc = "returned" /\ Len(d_log) = 2 /\ ~d_success
    /\ d_log[1].response = "broken_stream" /\ d_log[1].action = "failed"
    /\ d_log[1].before = OtherMd5 /\ d_disk[d_log[1].rel] = "absent"
    /\ d_log[2].action = "saved" /\ d_disk[d_log[2].rel] = GoodMd5

\* C26: in piper_inference, a synthesize call with an output path whose
\* backend raised does not raise: it returns the synthetic fallback audio,
\* having written it to the path at the configuration's sample rate.
C26_FallbackSaved ==
    (/\ last.done /\ variant = "orig" /\ last.backend_exc
     /\ last.output_path # NoPath) =>
        /\ last.exc = "" /\ last.audio.src = "synthetic"
        /\ files[last.output_path].exists
        /\ files[last.output_path].audio = last.audio
        /\ files[last.output_path].rate =
            Get(Get(config, "audio", EmptyDict), "sample_rate", 22050)

\* C27: the sequence _generate_fallback_phonemes returns for a text of 50
\* characters has each of the 5 vowel ids and each of the 18 consonant ids
\* at some position.
C27_BothPoolsCycled ==
    (f_out.done /\ Len(f_text) = 50) =>
        \A id \in {14, 18, 21, 27, 33}
                  \cup {15, 17, 19, 20, 23, 24, 25, 26, 28, 29, 30, 31, 32, 34,
                         35, 36, 37, 38} :
            \E k \in 1..Len(f_out.val) : f_out.val[k] = id

\* C28: an object of piper_inference_fixed never has both its ONNX session
\* and its PyTorch model loaded, during construction and after any
\* synthesize calls; so a call whose ONNX run raised never goes on to
\* PyTorch: it ends in the synthetic generator.
C28_NeverBothLoaded ==
    variant = "fixed" =>
        /\ ~(session # None /\ model # None)
        /\ (last.done /\ last.tried # <<>> /\ last.tried[1] = "onnx"
             /\ last.backend_exc) =>
                last.tried = <<"onnx", "synthetic">>
C28_OnnxFailedTorchImportable ==
    /\ variant = "fixed" /\ TORCH_AVAILABLE /\ session # None /\ model = None
    /\ probes = <<"onnx">>
    /\ last.done /\ last.backend_exc /\ last.tried = <<"onnx", "synthetic">>
    /\ last.exc = "" /\ last.audio.src = "synthetic"

\* C29: for a table whose entries all have an id, text_to_phonemes of
\* piper_inference_fixed returns len(t) + 2 tokens, t being the text
\* lowercased and stripped: BOS, then for each character of t, in order,
\* the first id of its mapped phoneme when the table has it and the
\* separator id (the table's id of ' ', or 3) when it has not or the
\* character is unknown, then EOS; each id bounded by the table's largest.
\* No character is dropped and nothing is added between words.
C29_OneTokenPerCharacter ==
    (/\ e_out.done /\ e_variant = "fixed"
     /\ \A s \in DOMAIN EffectiveTable : EffectiveTable[s] # <<>>) =>
        LET t == Strip(Lower(e_text))
            m == EffectiveTable
            cap == MaxOfSet({MaxOfList(m[s]) : s \in DOMAIN m})
            First(sym, dflt) == IF sym \in DOMAIN m THEN m[sym][1] ELSE dflt
            Token(c) == IF c \in DOMAIN char_to_phoneme
                           /\ char_to_phoneme[c] \in DOMAIN m
                        THEN m[char_to_phoneme[c]][1]
                        ELSE First(" ", 3)
        IN  /\ e_out.exc = ""
            /\ Len(e_out.val) = Len(t) + 2
            /\ e_out.val[1] = Min(First("_", 1), cap)
            /\ e_out.val[Len(t) + 2] = Min(First("$", 2), cap)
            /\ \A i \in 1..Len(t) : e_out.val[i + 1] = Min(Token(t[i]), cap)
C29_UnknownAndUnmappedCharacters ==
    /\ e_out.done /\ e_variant = "fixed" /\ e_text = <<"x", "9">>
    /\ e_config = "phoneme_id_map" :> PiperTable
    /\ e_out.exc = "" /\ e_out.val = <<0, 3, 3, 2>>

\* C30: synthesize_with_onnx gives an input name one role, the first that
\* matches in the order phoneme ('input', or 'phoneme' in the lowered
\* name), length ('input_lengths', or 'length' in it), scale ('scales', or
\* 'scale' in it): 'phoneme_lengths' gets the phoneme ids, and
\* 'length_scale' the length, never the scales.
C30_FirstMatchingRole ==
    (o_out.done /\ o_variant = "fixed") =>
        \A n \in o_names :
            LET phoneme == n = N_input \/ Contains(N_phoneme, Lower(n))
                length == n = N_input_lengths \/ Contains(N_length, Lower(n))
                scale == n = N_scales \/ Contains(N_scale, Lower(n))
            IN  /\ phoneme => (n \in DOMAIN o_out.val /\ o_out.val[n] = "phoneme_input")
                /\ (~phoneme /\ length) =>
                        (n \in DOMAIN o_out.val /\ o_out.val[n] = "input_lengths")
                /\ (~phoneme /\ ~length /\ scale) =>
                        (n \in DOMAIN o_out.val /\ o_out.val[n] = "scales")
                /\ n = N_phoneme_lengths => o_out.val[n] = "phoneme_input"
                /\ n = N_length_scale => o_out.val[n] = "input_lengths"
C30_NamesMatchingTwoRoles ==
    /\ o_out.done /\ o_variant = "fixed"
    /\ {N_phoneme_lengths, N_length_scale, N_scales} \subseteq o_names
    /\ o_out.val[N_phoneme_lengths] = "phoneme_input"
    /\ o_out.val[N_length_scale] = "input_lengths"
    /\ o_out.val[N_scales] = "scales"

====
